---------------------------- MODULE Spec2Model ----------------------------
(***************************************************************************)
(* Patrol tracker backend (backend/server.py): the five document stores,   *)
(* the bearer-token dependency and the fifteen request handlers.           *)
(*                                                                         *)
(* A request occupies a slot.  A handler that performs one store operation *)
(* after resolving the caller is one step; register and mark_attendance,   *)
(* which await several store operations, are one step per awaited          *)
(* operation, so that other requests can run between them.                 *)
(* Timestamps (created_at, check_in_time) and the fields no handler reads  *)
(* (description, latitude, longitude) are left out of the documents.       *)
(***************************************************************************)
EXTENDS Integers, Sequences, FiniteSets, TLC

\* ------------------------------------------------------------ bounds
MaxConc == 2          \* requests in flight at once
MaxUsers == 2         \* rows of db.users
MaxPoints == 1        \* patrol points ever created
MaxRoutes == 1        \* routes ever created
MaxAssignments == 1   \* rows of db.route_assignments
MaxAttendance == 1    \* rows of db.attendance
MaxMarks == 4         \* rows of db.attendance, on a patrol under way
MaxClock == 2163      \* the server clock's last minute, where sessions are followed
MaxRows == 2          \* rows of db.attendance, while the admin tidies up
MaxDuty == 4          \* rows of db.route_assignments, while the roster grows

\* ------------------------------------------------------------ program constants
ACCESS_TOKEN_EXPIRE_MINUTES == 1440
ListCap == 1000
AttendanceCap == 10000

VARIABLES
    users,              \* db.users
    patrol_points,      \* db.patrol_points
    routes,             \* db.routes
    route_assignments,  \* db.route_assignments
    attendance,         \* db.attendance
    n_points,           \* patrol points created so far (uuid4 never repeats an id)
    n_routes,           \* routes created so far
    now,                \* server clock, minutes
    reqs                \* slot -> the request running in it, or its response

stores == <<users, patrol_points, routes, route_assignments, attendance>>
vars == <<users, patrol_points, routes, route_assignments, attendance,
          n_points, n_routes, now, reqs>>

Slots == 1..MaxConc

\* ------------------------------------------------------------ identifiers
\* str(uuid.uuid4()): a fresh string per document; the n-th document of a
\* collection gets the n-th name of the collection's pool.
UserIds == <<"u1", "u2", "u3", "u4", "u5", "u6">>
PointIds == <<"p1", "p2", "p3", "p4", "p5", "p6">>
RouteIds == <<"r1", "r2", "r3", "r4", "r5", "r6">>
AssignmentIds == <<"a1", "a2", "a3", "a4", "a5", "a6">>
\* An attendance row's fresh id: what the row records and how many rows record
\* the same already (two rows never share an id).
AttendanceId(rows, assignment_id, point_id, officer_id) ==
    <<assignment_id, point_id, officer_id,
      Cardinality({t \in rows : /\ t.route_assignment_id = assignment_id
                                /\ t.patrol_point_id = point_id
                                /\ t.officer_id = officer_id}) + 1>>

None == "None"

\* ------------------------------------------------------------ documents
NoUser ==
    [id |-> None, username |-> None, password_hash |-> None,
     full_name |-> None, role |-> None, badge_number |-> None]

\* Model.find(query).to_list(cap): at most cap of the matching documents.
to_list(docs, cap) ==
    IF Cardinality(docs) <= cap THEN {docs}
    ELSE {S \in SUBSET docs : Cardinality(S) = cap}

\* ------------------------------------------------------------ auth utilities
Passwords == {"pw1", "pw2"}

get_password_hash(password) ==
    IF password = "pw1" THEN "$2b$hash-of-pw1" ELSE "$2b$hash-of-pw2"

verify_password(plain_password, hashed_password) ==
    \E p \in Passwords : p = plain_password /\ get_password_hash(p) = hashed_password

\* A bearer token: the subject and expiry it carries and whether its
\* signature verifies under SECRET_KEY.  NoToken: no Authorization header.
NoToken == [sub |-> None, exp |-> 0, sig |-> "absent"]

create_access_token(sub, t) ==
    [sub |-> sub, exp |-> t + ACCESS_TOKEN_EXPIRE_MINUTES, sig |-> "good"]

\* HTTPBearer() with auto_error answers a request without credentials itself.
\* The status is the framework's: 403 in the FastAPI releases before 0.122,
\* 401 from then on.  The repository pins no release.
HTTPBearerMissing == {401, 403}

AuthFail(code, detail) == [code |-> code, detail |-> detail, user |-> NoUser]

\* the caller resolved without looking at the token's expiry
get_current_user_unexpiring(tok) ==
    IF tok.sig = "absent"
    THEN {AuthFail(c, "Not authenticated") : c \in HTTPBearerMissing}
    ELSE IF tok.sig # "good"
    THEN {AuthFail(401, "Invalid token")}
    ELSE IF tok.sub = None
    THEN {AuthFail(401, "Invalid authentication credentials")}
    ELSE IF {u \in users : u.id = tok.sub} = {}
    THEN {AuthFail(401, "User not found")}
    ELSE {[code |-> 200, detail |-> "", user |-> u] : u \in {x \in users : x.id = tok.sub}}

\* get_current_user: the outcomes of resolving the caller from a token.
get_current_user(tok) ==
    IF tok.sig = "absent"
    THEN {AuthFail(c, "Not authenticated") : c \in HTTPBearerMissing}
    ELSE IF tok.sig # "good"
    THEN {AuthFail(401, "Invalid token")}
    ELSE IF tok.exp <= now
    THEN {AuthFail(401, "Token has expired")}
    ELSE IF tok.sub = None
    THEN {AuthFail(401, "Invalid authentication credentials")}
    ELSE IF {u \in users : u.id = tok.sub} = {}
    THEN {AuthFail(401, "User not found")}
    ELSE {[code |-> 200, detail |-> "", user |-> u] : u \in {x \in users : x.id = tok.sub}}


\* ------------------------------------------------------------ requests
\* A slot holds a request: op and its inputs (tok, arg), the handler's
\* position pc ("start" when received, "done" when answered), the resolved
\* current_user, the handler's locals, whether it has written to a store, and
\* the response (code, detail, body).
NoLocals == [route_id |-> None, k |-> 0, n |-> 0, password_hash |-> None]

Idle ==
    [op |-> "idle", pc |-> "done", tok |-> NoToken, arg |-> [x |-> None],
     user |-> NoUser, loc |-> NoLocals, wrote |-> FALSE,
     code |-> 0, detail |-> "", body |-> {}]

Req(op, tok, arg) ==
    [Idle EXCEPT !.op = op, !.pc = "start", !.tok = tok, !.arg = arg]

\* raise HTTPException(status_code, detail), or a returned body with 200.
Respond(r, code, detail, body) ==
    [r EXCEPT !.pc = "done", !.code = code, !.detail = detail, !.body = body]

Receive(s, op, tok, arg) ==
    /\ reqs[s].op = "idle"
    /\ reqs' = [reqs EXCEPT ![s] = Req(op, tok, arg)]
    /\ UNCHANGED <<users, patrol_points, routes, route_assignments, attendance,
                   n_points, n_routes, now>>

\* The response has been sent: the slot is free for the next request.
Close(s) ==
    /\ reqs[s].op # "idle"
    /\ reqs[s].pc = "done"
    /\ reqs' = [reqs EXCEPT ![s] = Idle]
    /\ UNCHANGED <<users, patrol_points, routes, route_assignments, attendance,
                   n_points, n_routes, now>>

At(s, op, pc) == reqs[s].op = op /\ reqs[s].pc = pc

Reply(s, r) == reqs' = [reqs EXCEPT ![s] = r]

\* A handler behind Depends(get_current_user) with a required role: runs
\* Body(user) for a resolved caller of that role, answers 401/403 otherwise.
\* required = None: any authenticated caller.
Denied(s, a, required, detail403) ==
    IF a.code # 200
    THEN Respond(reqs[s], a.code, a.detail, {})
    ELSE Respond([reqs[s] EXCEPT !.user = a.user], 403, detail403, {})

\* the role check passing officers everywhere
Allowed_officers_too(a, required) ==
    a.code = 200 /\ (required = None \/ a.user["role"] \in {required, "officer"})

\* the role check passing admins everywhere
Allowed_admins_too(a, required) ==
    a.code = 200 /\ (required = None \/ a.user["role"] \in {required, "admin"})

Allowed(a, required) ==
    a.code = 200 /\ (required = None \/ a.user["role"] = required)

\* ------------------------------------------------------------ auth routes
\* register with the username lookup left out
register_find_unchecked(s) ==
    /\ At(s, "register", "start")
    /\ Reply(s, [reqs[s] EXCEPT !.pc = "insert",
                   !.loc.password_hash = get_password_hash(reqs[s].arg.password)])
    /\ UNCHANGED <<users, patrol_points, routes, route_assignments, attendance,
                   n_points, n_routes, now>>

\* POST /auth/register
register_find(s) ==
    /\ At(s, "register", "start")
    /\ LET user_data == reqs[s].arg
           existing == {u \in users : u.username = user_data.username}
       IN  IF existing # {}
           THEN Reply(s, Respond(reqs[s], 400, "Username already exists", {}))
           ELSE Reply(s, [reqs[s] EXCEPT !.pc = "insert",
                            !.loc.password_hash = get_password_hash(user_data.password)])
    /\ UNCHANGED <<users, patrol_points, routes, route_assignments, attendance,
                   n_points, n_routes, now>>

UserResponse(u) ==
    [id |-> u.id, username |-> u.username, full_name |-> u.full_name,
     role |-> u.role, badge_number |-> u.badge_number]

register_insert(s) ==
    /\ At(s, "register", "insert")
    /\ LET user_data == reqs[s].arg
           user == [id |-> UserIds[Cardinality(users) + 1],
                    username |-> user_data.username,
                    password_hash |-> reqs[s].loc.password_hash,
                    full_name |-> user_data.full_name,
                    role |-> user_data.role,
                    badge_number |-> user_data.badge_number]
       IN  /\ users' = users \cup {user}
           /\ Reply(s, Respond([reqs[s] EXCEPT !.wrote = TRUE], 200, "",
                               {UserResponse(user)}))
    /\ UNCHANGED <<patrol_points, routes, route_assignments, attendance,
                   n_points, n_routes, now>>

\* login telling an unknown username from a wrong password
login_enumerable(s) ==
    /\ At(s, "login", "start")
    /\ LET login_data == reqs[s].arg
           found == {u \in users : u.username = login_data.username}
       IN  \/ /\ found = {}
              /\ Reply(s, Respond(reqs[s], 404, "User not found", {}))
           \/ \E user \in found :
                IF ~verify_password(login_data.password, user.password_hash)
                THEN Reply(s, Respond(reqs[s], 401, "Invalid username or password", {}))
                ELSE Reply(s, Respond(reqs[s], 200, "",
                        {[access_token |-> create_access_token(user.id, now),
                          token_type |-> "bearer",
                          user |-> UserResponse(user)]}))
    /\ UNCHANGED <<users, patrol_points, routes, route_assignments, attendance,
                   n_points, n_routes, now>>

\* POST /auth/login
login(s) ==
    /\ At(s, "login", "start")
    /\ LET login_data == reqs[s].arg
           found == {u \in users : u.username = login_data.username}
       IN  \/ /\ found = {}
              /\ Reply(s, Respond(reqs[s], 401, "Invalid username or password", {}))
           \/ \E user \in found :
                IF ~verify_password(login_data.password, user.password_hash)
                THEN Reply(s, Respond(reqs[s], 401, "Invalid username or password", {}))
                ELSE Reply(s, Respond(reqs[s], 200, "",
                        {[access_token |-> create_access_token(user.id, now),
                          token_type |-> "bearer",
                          user |-> UserResponse(user)]}))
    /\ UNCHANGED <<users, patrol_points, routes, route_assignments, attendance,
                   n_points, n_routes, now>>

\* GET /auth/me
get_me(s) ==
    /\ At(s, "get_me", "start")
    /\ \E a \in get_current_user(reqs[s].tok) :
         IF ~Allowed(a, None)
         THEN Reply(s, Denied(s, a, None, ""))
         ELSE Reply(s, Respond([reqs[s] EXCEPT !.user = a.user], 200, "",
                               {UserResponse(a.user)}))
    /\ UNCHANGED <<users, patrol_points, routes, route_assignments, attendance,
                   n_points, n_routes, now>>

\* ------------------------------------------------------------ patrol points
\* POST /patrol-points
create_patrol_point(s) ==
    /\ At(s, "create_patrol_point", "start")
    /\ \E a \in get_current_user(reqs[s].tok) :
         IF ~Allowed(a, "admin")
         THEN /\ Reply(s, Denied(s, a, "admin", "Only admins can create patrol points"))
              /\ UNCHANGED <<patrol_points, n_points>>
         ELSE LET point == [id |-> PointIds[n_points + 1],
                            name |-> reqs[s].arg.name,
                            address |-> reqs[s].arg.address]
              IN  /\ patrol_points' = patrol_points \cup {point}
                  /\ n_points' = n_points + 1
                  /\ Reply(s, Respond([reqs[s] EXCEPT !.user = a.user, !.wrote = TRUE],
                                      200, "", {point}))
    /\ UNCHANGED <<users, routes, route_assignments, attendance, n_routes, now>>

\* GET /patrol-points
get_patrol_points(s) ==
    /\ At(s, "get_patrol_points", "start")
    /\ \E a \in get_current_user(reqs[s].tok) :
         IF ~Allowed(a, None)
         THEN Reply(s, Denied(s, a, None, ""))
         ELSE \E points \in to_list(patrol_points, ListCap) :
                Reply(s, Respond([reqs[s] EXCEPT !.user = a.user], 200, "", points))
    /\ UNCHANGED <<users, patrol_points, routes, route_assignments, attendance,
                   n_points, n_routes, now>>

\* the delete of a patrol point answering 200 whether or not one was stored
delete_patrol_point_idempotent(s) ==
    /\ At(s, "delete_patrol_point", "start")
    /\ \E a \in get_current_user(reqs[s].tok) :
         IF ~Allowed(a, "admin")
         THEN /\ Reply(s, Denied(s, a, "admin", "Only admins can delete patrol points"))
              /\ UNCHANGED patrol_points
         ELSE /\ patrol_points' = {p \in patrol_points : p.id # reqs[s].arg.id}
              /\ Reply(s, Respond([reqs[s] EXCEPT !.user = a.user,
                                     !.wrote = patrol_points' # patrol_points],
                                  200, "Patrol point deleted successfully", {}))
    /\ UNCHANGED <<users, routes, route_assignments, attendance, n_points, n_routes, now>>

\* the delete of a patrol point cascading into the routes that list it
delete_patrol_point_cascading(s) ==
    /\ At(s, "delete_patrol_point", "start")
    /\ \E a \in get_current_user(reqs[s].tok) :
         IF ~Allowed(a, "admin")
         THEN /\ Reply(s, Denied(s, a, "admin", "Only admins can delete patrol points"))
              /\ UNCHANGED <<patrol_points, routes>>
         ELSE LET hit == {p \in patrol_points : p.id = reqs[s].arg.id}
              IN  IF hit = {}
                  THEN /\ Reply(s, Respond([reqs[s] EXCEPT !.user = a.user],
                                           404, "Patrol point not found", {}))
                       /\ UNCHANGED <<patrol_points, routes>>
                  ELSE \E p \in hit :
                         /\ patrol_points' = patrol_points \ {p}
                         /\ routes' = {[r EXCEPT !.patrol_point_ids =
                                          SelectSeq(r.patrol_point_ids, LAMBDA i : i # p.id)] :
                                       r \in routes}
                         /\ Reply(s, Respond([reqs[s] EXCEPT !.user = a.user, !.wrote = TRUE],
                                  200, "Patrol point deleted successfully", {}))
    /\ UNCHANGED <<users, route_assignments, attendance, n_points, n_routes, now>>

\* DELETE /patrol-points/{point_id}
delete_patrol_point(s) ==
    /\ At(s, "delete_patrol_point", "start")
    /\ \E a \in get_current_user(reqs[s].tok) :
         IF ~Allowed(a, "admin")
         THEN /\ Reply(s, Denied(s, a, "admin", "Only admins can delete patrol points"))
              /\ UNCHANGED patrol_points
         ELSE LET hit == {p \in patrol_points : p.id = reqs[s].arg.id}
              IN  IF hit = {}
                  THEN /\ Reply(s, Respond([reqs[s] EXCEPT !.user = a.user],
                                           404, "Patrol point not found", {}))
                       /\ UNCHANGED patrol_points
                  ELSE \E p \in hit :
                         /\ patrol_points' = patrol_points \ {p}
                         /\ Reply(s, Respond([reqs[s] EXCEPT !.user = a.user, !.wrote = TRUE],
                                  200, "Patrol point deleted successfully", {}))
    /\ UNCHANGED <<users, routes, route_assignments, attendance, n_points, n_routes, now>>

\* ------------------------------------------------------------ routes
\* POST /routes
create_route(s) ==
    /\ At(s, "create_route", "start")
    /\ \E a \in get_current_user(reqs[s].tok) :
         IF ~Allowed(a, "admin")
         THEN /\ Reply(s, Denied(s, a, "admin", "Only admins can create routes"))
              /\ UNCHANGED <<routes, n_routes>>
         ELSE LET route == [id |-> RouteIds[n_routes + 1],
                            name |-> reqs[s].arg.name,
                            patrol_point_ids |-> reqs[s].arg.patrol_point_ids]
              IN  /\ routes' = routes \cup {route}
                  /\ n_routes' = n_routes + 1
                  /\ Reply(s, Respond([reqs[s] EXCEPT !.user = a.user, !.wrote = TRUE],
                                      200, "", {route}))
    /\ UNCHANGED <<users, patrol_points, route_assignments, attendance, n_points, now>>

\* GET /routes
get_routes(s) ==
    /\ At(s, "get_routes", "start")
    /\ \E a \in get_current_user(reqs[s].tok) :
         IF ~Allowed(a, None)
         THEN Reply(s, Denied(s, a, None, ""))
         ELSE \E found \in to_list(routes, ListCap) :
                Reply(s, Respond([reqs[s] EXCEPT !.user = a.user], 200, "", found))
    /\ UNCHANGED <<users, patrol_points, routes, route_assignments, attendance,
                   n_points, n_routes, now>>

\* DELETE /routes/{route_id}
delete_route(s) ==
    /\ At(s, "delete_route", "start")
    /\ \E a \in get_current_user(reqs[s].tok) :
         IF ~Allowed(a, "admin")
         THEN /\ Reply(s, Denied(s, a, "admin", "Only admins can delete routes"))
              /\ UNCHANGED routes
         ELSE LET hit == {r \in routes : r.id = reqs[s].arg.id}
              IN  IF hit = {}
                  THEN /\ Reply(s, Respond([reqs[s] EXCEPT !.user = a.user],
                                           404, "Route not found", {}))
                       /\ UNCHANGED routes
                  ELSE \E r \in hit :
                         /\ routes' = routes \ {r}
                         /\ Reply(s, Respond([reqs[s] EXCEPT !.user = a.user, !.wrote = TRUE],
                                  200, "Route deleted successfully", {}))
    /\ UNCHANGED <<users, patrol_points, route_assignments, attendance,
                   n_points, n_routes, now>>

\* ------------------------------------------------------------ route assignments
\* POST /route-assignments
create_route_assignment(s) ==
    /\ At(s, "create_route_assignment", "start")
    /\ \E a \in get_current_user(reqs[s].tok) :
         IF ~Allowed(a, "admin")
         THEN /\ Reply(s, Denied(s, a, "admin", "Only admins can assign routes"))
              /\ UNCHANGED route_assignments
         ELSE LET assignment == [id |-> AssignmentIds[Cardinality(route_assignments) + 1],
                                 officer_id |-> reqs[s].arg.officer_id,
                                 route_id |-> reqs[s].arg.route_id,
                                 date |-> reqs[s].arg.date,
                                 status |-> "assigned"]
              IN  /\ route_assignments' = route_assignments \cup {assignment}
                  /\ Reply(s, Respond([reqs[s] EXCEPT !.user = a.user, !.wrote = TRUE],
                                      200, "", {assignment}))
    /\ UNCHANGED <<users, patrol_points, routes, attendance, n_points, n_routes, now>>

\* the listing without the officer's query filter
get_route_assignments_unfiltered(s) ==
    /\ At(s, "get_route_assignments", "start")
    /\ \E a \in get_current_user(reqs[s].tok) :
         IF ~Allowed(a, None)
         THEN Reply(s, Denied(s, a, None, ""))
         ELSE \E assignments \in to_list(route_assignments, ListCap) :
                Reply(s, Respond([reqs[s] EXCEPT !.user = a.user], 200, "", assignments))
    /\ UNCHANGED <<users, patrol_points, routes, route_assignments, attendance,
                   n_points, n_routes, now>>

\* GET /route-assignments
get_route_assignments(s) ==
    /\ At(s, "get_route_assignments", "start")
    /\ \E a \in get_current_user(reqs[s].tok) :
         IF ~Allowed(a, None)
         THEN Reply(s, Denied(s, a, None, ""))
         ELSE LET matching ==
                    IF a.user["role"] = "officer"
                    THEN {x \in route_assignments : x.officer_id = a.user["id"]}
                    ELSE route_assignments
              IN  \E assignments \in to_list(matching, ListCap) :
                    Reply(s, Respond([reqs[s] EXCEPT !.user = a.user], 200, "", assignments))
    /\ UNCHANGED <<users, patrol_points, routes, route_assignments, attendance,
                   n_points, n_routes, now>>

\* datetime.now(timezone.utc).strftime("%Y-%m-%d")
Dates == <<"2025-01-01", "2025-01-02", "2025-01-03">>
Today == Dates[(now \div 1440) + 1]

\* The loop of get_today_assignment over route["patrol_point_ids"]: the found
\* points in the route's order, each with its completed flag; an id that
\* matches no found point is skipped.
RECURSIVE ordered_points(_, _, _)
ordered_points(point_ids, found, completed_point_ids) ==
    IF point_ids = <<>> THEN <<>>
    ELSE LET point_id == Head(point_ids)
             hit == {p \in found : p.id = point_id}
             rest == ordered_points(Tail(point_ids), found, completed_point_ids)
         IN  IF hit = {} THEN rest
             ELSE <<[id |-> point_id,
                     name |-> (CHOOSE p \in hit : TRUE).name,
                     address |-> (CHOOSE p \in hit : TRUE).address,
                     completed |-> point_id \in completed_point_ids]>> \o rest

SeqRange(q) == {q[i] : i \in 1..Len(q)}

\* today's assignment with "none today" answered as an error
get_today_assignment_strict(s) ==
    /\ At(s, "get_today_assignment", "start")
    /\ \E a \in get_current_user(reqs[s].tok) :
         IF ~Allowed(a, "officer")
         THEN Reply(s, Denied(s, a, "officer", "Only officers can access this endpoint"))
         ELSE LET r == [reqs[s] EXCEPT !.user = a.user]
                  mine == {x \in route_assignments :
                             x.officer_id = a.user["id"] /\ x.date = Today}
              IN  \/ /\ mine = {}
                     /\ Reply(s, Respond(r, 404, "No route assigned for today", {}))
                  \/ \E assignment \in mine :
                       LET hit == {x \in routes : x.id = assignment.route_id}
                       IN  \/ /\ hit = {}
                              /\ Reply(s, Respond(r, 404, "Route not found", {}))
                           \/ \E route \in hit :
                              \E found \in to_list({p \in patrol_points :
                                    p.id \in SeqRange(route.patrol_point_ids)}, ListCap) :
                              \E attendance_records \in to_list({t \in attendance :
                                    t.route_assignment_id = assignment.id}, ListCap) :
                                Reply(s, Respond(r, 200, "",
                                  {[assignment |-> assignment,
                                    route |-> route,
                                    patrol_points |-> ordered_points(route.patrol_point_ids, found,
                                        {t.patrol_point_id : t \in attendance_records})]}))
    /\ UNCHANGED <<users, patrol_points, routes, route_assignments, attendance,
                   n_points, n_routes, now>>

\* today's assignment with the attendance of every assignment taken for its own
get_today_assignment_any_rows(s) ==
    /\ At(s, "get_today_assignment", "start")
    /\ \E a \in get_current_user(reqs[s].tok) :
         IF ~Allowed(a, "officer")
         THEN Reply(s, Denied(s, a, "officer", "Only officers can access this endpoint"))
         ELSE LET r == [reqs[s] EXCEPT !.user = a.user]
                  mine == {x \in route_assignments :
                             x.officer_id = a.user["id"] /\ x.date = Today}
              IN  \/ /\ mine = {}
                     /\ Reply(s, Respond(r, 200, "", {[message |-> "No route assigned for today"]}))
                  \/ \E assignment \in mine :
                       LET hit == {x \in routes : x.id = assignment.route_id}
                       IN  \/ /\ hit = {}
                              /\ Reply(s, Respond(r, 404, "Route not found", {}))
                           \/ \E route \in hit :
                              \E found \in to_list({p \in patrol_points :
                                    p.id \in SeqRange(route.patrol_point_ids)}, ListCap) :
                              \E attendance_records \in to_list(attendance, ListCap) :
                                Reply(s, Respond(r, 200, "",
                                  {[assignment |-> assignment,
                                    route |-> route,
                                    patrol_points |-> ordered_points(route.patrol_point_ids, found,
                                        {t.patrol_point_id : t \in attendance_records})]}))
    /\ UNCHANGED <<users, patrol_points, routes, route_assignments, attendance,
                   n_points, n_routes, now>>

\* GET /route-assignments/today (its four reads taken together: it writes nothing)
get_today_assignment(s) ==
    /\ At(s, "get_today_assignment", "start")
    /\ \E a \in get_current_user(reqs[s].tok) :
         IF ~Allowed(a, "officer")
         THEN Reply(s, Denied(s, a, "officer", "Only officers can access this endpoint"))
         ELSE LET r == [reqs[s] EXCEPT !.user = a.user]
                  mine == {x \in route_assignments :
                             x.officer_id = a.user["id"] /\ x.date = Today}
              IN  \/ /\ mine = {}
                     /\ Reply(s, Respond(r, 200, "", {[message |-> "No route assigned for today"]}))
                  \/ \E assignment \in mine :
                       LET hit == {x \in routes : x.id = assignment.route_id}
                       IN  \/ /\ hit = {}
                              /\ Reply(s, Respond(r, 404, "Route not found", {}))
                           \/ \E route \in hit :
                              \E found \in to_list({p \in patrol_points :
                                    p.id \in SeqRange(route.patrol_point_ids)}, ListCap) :
                              \E attendance_records \in to_list({t \in attendance :
                                    t.route_assignment_id = assignment.id}, ListCap) :
                                Reply(s, Respond(r, 200, "",
                                  {[assignment |-> assignment,
                                    route |-> route,
                                    patrol_points |-> ordered_points(route.patrol_point_ids, found,
                                        {t.patrol_point_id : t \in attendance_records})]}))
    /\ UNCHANGED <<users, patrol_points, routes, route_assignments, attendance,
                   n_points, n_routes, now>>

\* ------------------------------------------------------------ attendance
\* POST /attendance: the caller and the role check
mark_attendance(s) ==
    /\ At(s, "mark_attendance", "start")
    /\ \E a \in get_current_user(reqs[s].tok) :
         IF ~Allowed(a, "officer")
         THEN Reply(s, Denied(s, a, "officer", "Only officers can mark attendance"))
         ELSE Reply(s, [reqs[s] EXCEPT !.user = a.user, !.pc = "find_assignment"])
    /\ UNCHANGED <<users, patrol_points, routes, route_assignments, attendance,
                   n_points, n_routes, now>>

\* mark_attendance looking the assignment up among the caller's own
mark_find_assignment_owned(s) ==
    /\ At(s, "mark_attendance", "find_assignment")
    /\ LET hit == {x \in route_assignments :
                     /\ x.id = reqs[s].arg.route_assignment_id
                     /\ x.officer_id = reqs[s].user["id"]}
       IN  \/ /\ hit = {}
              /\ Reply(s, Respond(reqs[s], 404, "Route assignment not found", {}))
           \/ \E assignment \in hit :
                Reply(s, [reqs[s] EXCEPT !.pc = "check_existing",
                                         !.loc.route_id = assignment.route_id])
    /\ UNCHANGED <<users, patrol_points, routes, route_assignments, attendance,
                   n_points, n_routes, now>>

\* mark_attendance with the assignment lookup left out
mark_find_assignment_unchecked(s) ==
    /\ At(s, "mark_attendance", "find_assignment")
    /\ Reply(s, [reqs[s] EXCEPT !.pc = "check_existing"])
    /\ UNCHANGED <<users, patrol_points, routes, route_assignments, attendance,
                   n_points, n_routes, now>>

\* "Check if assignment exists"
mark_find_assignment(s) ==
    /\ At(s, "mark_attendance", "find_assignment")
    /\ LET hit == {x \in route_assignments : x.id = reqs[s].arg.route_assignment_id}
       IN  \/ /\ hit = {}
              /\ Reply(s, Respond(reqs[s], 404, "Route assignment not found", {}))
           \/ \E assignment \in hit :
                Reply(s, [reqs[s] EXCEPT !.pc = "check_existing",
                                         !.loc.route_id = assignment.route_id])
    /\ UNCHANGED <<users, patrol_points, routes, route_assignments, attendance,
                   n_points, n_routes, now>>

\* mark_attendance with the "already marked" lookup left out
mark_check_existing_skipped(s) ==
    /\ At(s, "mark_attendance", "check_existing")
    /\ Reply(s, [reqs[s] EXCEPT !.pc = "insert"])
    /\ UNCHANGED <<users, patrol_points, routes, route_assignments, attendance,
                   n_points, n_routes, now>>

\* "Check if already marked"
mark_check_existing(s) ==
    /\ At(s, "mark_attendance", "check_existing")
    /\ LET existing == {t \in attendance :
                          /\ t.route_assignment_id = reqs[s].arg.route_assignment_id
                          /\ t.patrol_point_id = reqs[s].arg.patrol_point_id}
       IN  IF existing # {}
           THEN Reply(s, Respond(reqs[s], 400, "Attendance already marked for this point", {}))
           ELSE Reply(s, [reqs[s] EXCEPT !.pc = "insert"])
    /\ UNCHANGED <<users, patrol_points, routes, route_assignments, attendance,
                   n_points, n_routes, now>>

\* the attendance row inserted without the caller's id
mark_insert_unstamped(s) ==
    /\ At(s, "mark_attendance", "insert")
    /\ LET doc == [id |-> AttendanceId(attendance, reqs[s].arg.route_assignment_id,
                                      reqs[s].arg.patrol_point_id, None),
                   officer_id |-> None,
                   route_assignment_id |-> reqs[s].arg.route_assignment_id,
                   patrol_point_id |-> reqs[s].arg.patrol_point_id,
                   notes |-> reqs[s].arg.notes]
       IN  /\ attendance' = attendance \cup {doc}
           /\ Reply(s, [reqs[s] EXCEPT !.pc = "find_route", !.wrote = TRUE, !.body = {doc}])
    /\ UNCHANGED <<users, patrol_points, routes, route_assignments, n_points, n_routes, now>>

\* db.attendance.insert_one(doc)
mark_insert(s) ==
    /\ At(s, "mark_attendance", "insert")
    /\ LET doc == [id |-> AttendanceId(attendance, reqs[s].arg.route_assignment_id,
                                      reqs[s].arg.patrol_point_id, reqs[s].user["id"]),
                   officer_id |-> reqs[s].user["id"],
                   route_assignment_id |-> reqs[s].arg.route_assignment_id,
                   patrol_point_id |-> reqs[s].arg.patrol_point_id,
                   notes |-> reqs[s].arg.notes]
       IN  /\ attendance' = attendance \cup {doc}
           /\ Reply(s, [reqs[s] EXCEPT !.pc = "find_route", !.wrote = TRUE, !.body = {doc}])
    /\ UNCHANGED <<users, patrol_points, routes, route_assignments, n_points, n_routes, now>>

\* "Update assignment status": the route of the assignment read earlier
mark_find_route(s) ==
    /\ At(s, "mark_attendance", "find_route")
    /\ LET hit == {x \in routes : x.id = reqs[s].loc.route_id}
       IN  \/ /\ hit = {}
              /\ Reply(s, Respond(reqs[s], 200, "", reqs[s].body))
           \/ \E route \in hit :
                Reply(s, [reqs[s] EXCEPT !.pc = "count",
                                         !.loc.k = Len(route.patrol_point_ids)])
    /\ UNCHANGED <<users, patrol_points, routes, route_assignments, attendance,
                   n_points, n_routes, now>>

\* db.attendance.count_documents({"route_assignment_id": ...})
mark_count(s) ==
    /\ At(s, "mark_attendance", "count")
    /\ Reply(s, [reqs[s] EXCEPT !.pc = "update",
                   !.loc.n = Cardinality({t \in attendance :
                        t.route_assignment_id = reqs[s].arg.route_assignment_id})])
    /\ UNCHANGED <<users, patrol_points, routes, route_assignments, attendance,
                   n_points, n_routes, now>>

\* the comparison with the route's length made strict
new_status_strict(attendance_count, k) ==
    IF attendance_count > k THEN "completed"
    ELSE IF attendance_count > 0 THEN "in_progress"
    ELSE None

\* The status the counted attendance calls for; None: no update_one is issued.
new_status(attendance_count, k) ==
    IF attendance_count >= k THEN "completed"
    ELSE IF attendance_count > 0 THEN "in_progress"
    ELSE None

\* the status update replacing the document by one of id and status alone
update_status_replacing(assignment_id, status) ==
    {IF x.id = assignment_id
     THEN [x EXCEPT !.status = status, !.officer_id = None, !.route_id = None, !.date = None]
     ELSE x : x \in route_assignments}

\* db.route_assignments.update_one({"id": ...}, {"$set": {"status": ...}})
update_status(assignment_id, status) ==
    {IF x.id = assignment_id THEN [x EXCEPT !.status = status] ELSE x :
        x \in route_assignments}

mark_update(s) ==
    /\ At(s, "mark_attendance", "update")
    /\ LET status == new_status(reqs[s].loc.n, reqs[s].loc.k)
       IN  IF status = None
           THEN UNCHANGED route_assignments
           ELSE route_assignments' = update_status(reqs[s].arg.route_assignment_id, status)
    /\ Reply(s, Respond(reqs[s], 200, "", reqs[s].body))
    /\ UNCHANGED <<users, patrol_points, routes, attendance, n_points, n_routes, now>>

\* the row of the listing with nothing put in a missing patrol point's place
attendance_view_unsubstituted(record) ==
    LET officer == {u \in users : u.id = record.officer_id}
        patrol_point == {p \in patrol_points : p.id = record.patrol_point_id}
        assignment == {x \in route_assignments : x.id = record.route_assignment_id}
    IN  [id |-> record.id,
         officer_name |-> IF officer # {} THEN (CHOOSE u \in officer : TRUE).full_name
                          ELSE "Unknown",
         badge_number |-> IF officer # {} THEN (CHOOSE u \in officer : TRUE).badge_number
                          ELSE None,
         patrol_point_name |-> IF patrol_point # {}
                               THEN (CHOOSE p \in patrol_point : TRUE).name ELSE None,
         patrol_point_address |-> IF patrol_point # {}
                               THEN (CHOOSE p \in patrol_point : TRUE).address ELSE None,
         notes |-> record.notes,
         date |-> IF assignment # {} THEN (CHOOSE x \in assignment : TRUE).date ELSE None]

\* One row of GET /attendance
attendance_view(record) ==
    LET officer == {u \in users : u.id = record.officer_id}
        patrol_point == {p \in patrol_points : p.id = record.patrol_point_id}
        assignment == {x \in route_assignments : x.id = record.route_assignment_id}
    IN  [id |-> record.id,
         officer_name |-> IF officer # {} THEN (CHOOSE u \in officer : TRUE).full_name
                          ELSE "Unknown",
         badge_number |-> IF officer # {} THEN (CHOOSE u \in officer : TRUE).badge_number
                          ELSE None,
         patrol_point_name |-> IF patrol_point # {}
                               THEN (CHOOSE p \in patrol_point : TRUE).name ELSE "Unknown",
         patrol_point_address |-> IF patrol_point # {}
                               THEN (CHOOSE p \in patrol_point : TRUE).address ELSE "Unknown",
         notes |-> record.notes,
         date |-> IF assignment # {} THEN (CHOOSE x \in assignment : TRUE).date ELSE None]

\* GET /attendance (its reads taken together: it writes nothing)
get_all_attendance(s) ==
    /\ At(s, "get_all_attendance", "start")
    /\ \E a \in get_current_user(reqs[s].tok) :
         IF ~Allowed(a, "admin")
         THEN Reply(s, Denied(s, a, "admin", "Only admins can view all attendance"))
         ELSE \E attendance_records \in to_list(attendance, AttendanceCap) :
                Reply(s, Respond([reqs[s] EXCEPT !.user = a.user], 200, "",
                                 {attendance_view(t) : t \in attendance_records}))
    /\ UNCHANGED <<users, patrol_points, routes, route_assignments, attendance,
                   n_points, n_routes, now>>

\* GET /users/officers
get_officers(s) ==
    /\ At(s, "get_officers", "start")
    /\ \E a \in get_current_user(reqs[s].tok) :
         IF ~Allowed(a, "admin")
         THEN Reply(s, Denied(s, a, "admin", "Only admins can view officers"))
         ELSE \E officers \in to_list({u \in users : u.role = "officer"}, ListCap) :
                Reply(s, Respond([reqs[s] EXCEPT !.user = a.user], 200, "",
                                 {UserResponse(u) : u \in officers}))
    /\ UNCHANGED <<users, patrol_points, routes, route_assignments, attendance,
                   n_points, n_routes, now>>

\* ------------------------------------------------------------ clients
\* What clients send.  Tokens: none, one for each of the first two users,
\* a forged one, an expired one, one whose subject is no stored user and one
\* without a subject.
Token(sub, exp, sig) == [sub |-> sub, exp |-> exp, sig |-> sig]

GoodTokens == {Token(UserIds[i], ACCESS_TOKEN_EXPIRE_MINUTES, "good") : i \in 1..2}

BadTokens ==
    {NoToken,
     Token("u1", ACCESS_TOKEN_EXPIRE_MINUTES, "bad"),
     Token("u1", 0, "good"),
     Token("u6", ACCESS_TOKEN_EXPIRE_MINUTES, "good"),
     Token(None, ACCESS_TOKEN_EXPIRE_MINUTES, "good")}

Tokens == GoodTokens \cup BadTokens

UserCreate(username, password, full_name, role, badge_number) ==
    [username |-> username, password |-> password, full_name |-> full_name,
     role |-> role, badge_number |-> badge_number]

Registrations ==
    {UserCreate("root", "pw1", "Root", "admin", None),
     UserCreate("alice", "pw1", "Alice", "officer", "B1"),
     UserCreate("alice", "pw2", "Mallory", "guest", None)}

Logins ==
    {[username |-> "root", password |-> "pw1"],
     [username |-> "alice", password |-> "pw2"],
     [username |-> "nobody", password |-> "pw1"]}

PointCreates == {[name |-> "Gate", address |-> "1 Main St"]}
PointDeletes == {[id |-> "p1"], [id |-> "p2"]}
RouteCreates == {[name |-> "Night", patrol_point_ids |-> <<"p1", "p2">>]}
RouteDeletes == {[id |-> "r1"], [id |-> "r2"]}
AssignmentCreates ==
    {[officer_id |-> "u2", route_id |-> "r1", date |-> Dates[1]],
     [officer_id |-> "u1", route_id |-> "r1", date |-> Dates[2]]}
Marks ==
    {[route_assignment_id |-> x, patrol_point_id |-> y, notes |-> None] :
        x \in {"a1", "a3"}, y \in {"p1", "p2"}}

InFlight(op) == Cardinality({s \in Slots : reqs[s].op = op /\ reqs[s].pc # "done"})

\* The requests of the API, received in slot s.
Requests(s) ==
    \/ \E d \in Registrations :
         /\ Cardinality(users) + InFlight("register") < MaxUsers
         /\ Receive(s, "register", NoToken, d)
    \/ \E d \in Logins : Receive(s, "login", NoToken, d)
    \/ \E t \in Tokens : Receive(s, "get_me", t, [x |-> None])
    \/ \E t \in Tokens, d \in PointCreates :
         /\ n_points + InFlight("create_patrol_point") < MaxPoints
         /\ Receive(s, "create_patrol_point", t, d)
    \/ \E t \in Tokens : Receive(s, "get_patrol_points", t, [x |-> None])
    \/ \E t \in Tokens, d \in PointDeletes : Receive(s, "delete_patrol_point", t, d)
    \/ \E t \in Tokens, d \in RouteCreates :
         /\ n_routes + InFlight("create_route") < MaxRoutes
         /\ Receive(s, "create_route", t, d)
    \/ \E t \in Tokens : Receive(s, "get_routes", t, [x |-> None])
    \/ \E t \in Tokens, d \in RouteDeletes : Receive(s, "delete_route", t, d)
    \/ \E t \in Tokens, d \in AssignmentCreates :
         /\ Cardinality(route_assignments) + InFlight("create_route_assignment") < MaxAssignments
         /\ Receive(s, "create_route_assignment", t, d)
    \/ \E t \in Tokens : Receive(s, "get_route_assignments", t, [x |-> None])
    \/ \E t \in Tokens : Receive(s, "get_today_assignment", t, [x |-> None])
    \/ \E t \in Tokens, d \in Marks :
         /\ Cardinality(attendance) + InFlight("mark_attendance") < MaxAttendance
         /\ Receive(s, "mark_attendance", t, d)
    \/ \E t \in Tokens : Receive(s, "get_all_attendance", t, [x |-> None])
    \/ \E t \in Tokens : Receive(s, "get_officers", t, [x |-> None])

\* One awaited step of the handler running in slot s.
Handle(s) ==
    \/ register_find(s)
    \/ register_insert(s)
    \/ login(s)
    \/ get_me(s)
    \/ create_patrol_point(s)
    \/ get_patrol_points(s)
    \/ delete_patrol_point(s)
    \/ create_route(s)
    \/ get_routes(s)
    \/ delete_route(s)
    \/ create_route_assignment(s)
    \/ get_route_assignments(s)
    \/ get_today_assignment(s)
    \/ mark_attendance(s)
    \/ mark_find_assignment(s)
    \/ mark_check_existing(s)
    \/ mark_insert(s)
    \/ mark_find_route(s)
    \/ mark_count(s)
    \/ mark_update(s)
    \/ get_all_attendance(s)
    \/ get_officers(s)

\* ------------------------------------------------------------ specifications
\* The stores of a fresh deployment.
Init ==
    /\ users = {}
    /\ patrol_points = {}
    /\ routes = {}
    /\ route_assignments = {}
    /\ attendance = {}
    /\ n_points = 0
    /\ n_routes = 0
    /\ now = 0
    /\ reqs = [s \in Slots |-> Idle]

\* Requests served one at a time: each is answered before the next is received.
Next ==
    \/ Requests(1)
    \/ Handle(1)
    \/ Close(1)

Spec == Init /\ [][Next]_vars

\* ------------------------------------------------------------ a patrol under way
\* The stores once an admin and two officers have registered and the admin
\* has created three patrol points, two routes over them and an assignment
\* on each: the documents the handlers above insert for those requests.
PatrolUsers ==
    {[id |-> UserIds[1], username |-> "root", password_hash |-> get_password_hash("pw1"),
      full_name |-> "Root", role |-> "admin", badge_number |-> None],
     [id |-> UserIds[2], username |-> "alice", password_hash |-> get_password_hash("pw1"),
      full_name |-> "Alice", role |-> "officer", badge_number |-> "B1"],
     [id |-> UserIds[3], username |-> "bob", password_hash |-> get_password_hash("pw2"),
      full_name |-> "Bob", role |-> "officer", badge_number |-> "B2"]}

PatrolPoints ==
    {[id |-> PointIds[1], name |-> "Gate", address |-> "1 Main St"],
     [id |-> PointIds[2], name |-> "Dock", address |-> "2 Quay Rd"],
     [id |-> PointIds[3], name |-> "Yard", address |-> "3 Mill Ln"]}

PatrolRoutes ==
    {[id |-> RouteIds[1], name |-> "Night", patrol_point_ids |-> <<"p1", "p2">>],
     [id |-> RouteIds[2], name |-> "Day", patrol_point_ids |-> <<"p3", "p1", "p2">>]}

PatrolAssignments ==
    {[id |-> AssignmentIds[1], officer_id |-> "u2", route_id |-> "r1",
      date |-> Dates[1], status |-> "assigned"],
     [id |-> AssignmentIds[2], officer_id |-> "u3", route_id |-> "r2",
      date |-> Dates[1], status |-> "assigned"]}

InitPatrol ==
    /\ users = PatrolUsers
    /\ patrol_points = PatrolPoints
    /\ routes = PatrolRoutes
    /\ route_assignments = PatrolAssignments
    /\ attendance = {}
    /\ n_points = 3
    /\ n_routes = 2
    /\ now = 0
    /\ reqs = [s \in Slots |-> Idle]

PatrolTokens == {Token(UserIds[i], ACCESS_TOKEN_EXPIRE_MINUTES, "good") : i \in 1..3}

PatrolMarks ==
    {[route_assignment_id |-> x, patrol_point_id |-> y, notes |-> None] :
        x \in {"a1", "a2"}, y \in {"p1", "p2", "p3"}}

\* Marks by the three users, and the admin deleting a route.
PatrolRequests(s) ==
    \/ \E t \in PatrolTokens, d \in PatrolMarks :
         /\ Cardinality(attendance) + InFlight("mark_attendance") < MaxMarks
         /\ Receive(s, "mark_attendance", t, d)
    \/ \E d \in RouteDeletes :
         Receive(s, "delete_route", Token("u1", ACCESS_TOKEN_EXPIRE_MINUTES, "good"), d)

HandlePatrol(s) ==
    \/ mark_attendance(s)
    \/ mark_find_assignment(s)
    \/ mark_check_existing(s)
    \/ mark_insert(s)
    \/ mark_find_route(s)
    \/ mark_count(s)
    \/ mark_update(s)
    \/ delete_route(s)

\* The patrol's requests served one at a time.
NextPatrol ==
    \/ PatrolRequests(1)
    \/ HandlePatrol(1)
    \/ Close(1)

SpecPatrol == InitPatrol /\ [][NextPatrol]_vars

\* An officer's marks against the first assignment, served concurrently:
\* between two awaited store operations of one request any other request runs.
RaceMarks ==
    {[route_assignment_id |-> "a1", patrol_point_id |-> y, notes |-> None] :
        y \in {"p1", "p2"}}

RaceRequests(s) ==
    \E t \in {Token("u2", ACCESS_TOKEN_EXPIRE_MINUTES, "good")}, d \in RaceMarks :
        /\ Cardinality(attendance) + InFlight("mark_attendance") < MaxMarks
        /\ Receive(s, "mark_attendance", t, d)

HandleMark(s) ==
    \/ mark_attendance(s)
    \/ mark_find_assignment(s)
    \/ mark_check_existing(s)
    \/ mark_insert(s)
    \/ mark_find_route(s)
    \/ mark_count(s)
    \/ mark_update(s)

NextMarkRace ==
    \E s \in Slots :
        \/ RaceRequests(s)
        \/ HandleMark(s)
        \/ Close(s)

SpecMarkRace == InitPatrol /\ [][NextMarkRace]_vars

\* Registrations served concurrently, on a fresh deployment.
HandleRegister(s) ==
    \/ register_find(s)
    \/ register_insert(s)

NextRegisterRace ==
    \E s \in Slots :
        \/ \E d \in Registrations :
             /\ Cardinality(users) + InFlight("register") < MaxUsers
             /\ Receive(s, "register", NoToken, d)
        \/ HandleRegister(s)
        \/ Close(s)

SpecRegisterRace == Init /\ [][NextRegisterRace]_vars

\* ------------------------------------------------------------ sessions
\* The server clock (datetime.now(timezone.utc), in minutes) moves on between
\* requests, by half a day or a minute more.
TickSteps == {720, 721}

Tick ==
    /\ \E d \in TickSteps :
         /\ now + d <= MaxClock
         /\ now' = now + d
    /\ UNCHANGED <<users, patrol_points, routes, route_assignments, attendance,
                   n_points, n_routes, reqs>>

SessionLogins ==
    Logins \cup {[username |-> "alice", password |-> "pw1"],
                 [username |-> "bob", password |-> "pw2"]}

\* The answered login in slot h returned a token.
LoggedIn(h) == reqs[h].op = "login" /\ reqs[h].pc = "done" /\ reqs[h].code = 200

\* The Token body of the answered login in slot h.
LoginResponse(h) == CHOOSE b \in reqs[h].body : TRUE

\* A client logs in (slot 1), keeps the response and calls GET /auth/me with
\* its access_token (slot 2), at once or later, while the clock moves on.
NextSession ==
    \/ \E d \in SessionLogins : Receive(1, "login", NoToken, d)
    \/ login(1)
    \/ /\ LoggedIn(1)
       /\ Receive(2, "get_me", LoginResponse(1).access_token, [x |-> None])
    \/ get_me(2)
    \/ Close(1)
    \/ Close(2)
    \/ Tick

SpecSession == InitPatrol /\ [][NextSession]_vars

\* ------------------------------------------------------------ tidying up
\* The patrol's stores with a fourth patrol point, on no route, whose name and
\* address are the literal the attendance listing substitutes.
UpkeepPoints ==
    PatrolPoints \cup {[id |-> PointIds[4], name |-> "Unknown", address |-> "Unknown"]}

InitUpkeep ==
    /\ users = PatrolUsers
    /\ patrol_points = UpkeepPoints
    /\ routes = PatrolRoutes
    /\ route_assignments = PatrolAssignments
    /\ attendance = {}
    /\ n_points = 4
    /\ n_routes = 2
    /\ now = 0
    /\ reqs = [s \in Slots |-> Idle]

UpkeepMarks ==
    {[route_assignment_id |-> x, patrol_point_id |-> y, notes |-> None] :
        x \in {"a1", "a2"}, y \in {"p1", "p3", "p4"}}

\* Officer alice marks, the admin deletes patrol points and routes, and
\* everyone reads: today's assignment and the attendance listing.
UpkeepRequests(s) ==
    \/ \E d \in UpkeepMarks :
         /\ Cardinality(attendance) + InFlight("mark_attendance") < MaxRows
         /\ Receive(s, "mark_attendance", Token("u2", ACCESS_TOKEN_EXPIRE_MINUTES, "good"), d)
    \/ \E d \in PointDeletes :
         Receive(s, "delete_patrol_point", Token("u1", ACCESS_TOKEN_EXPIRE_MINUTES, "good"), d)
    \/ \E d \in RouteDeletes :
         Receive(s, "delete_route", Token("u1", ACCESS_TOKEN_EXPIRE_MINUTES, "good"), d)
    \/ \E t \in PatrolTokens : Receive(s, "get_today_assignment", t, [x |-> None])
    \/ \E t \in PatrolTokens : Receive(s, "get_all_attendance", t, [x |-> None])

HandleUpkeep(s) ==
    \/ HandleMark(s)
    \/ delete_patrol_point(s)
    \/ delete_route(s)
    \/ get_today_assignment(s)
    \/ get_all_attendance(s)

NextUpkeep ==
    \/ UpkeepRequests(1)
    \/ HandleUpkeep(1)
    \/ Close(1)

SpecUpkeep == InitUpkeep /\ [][NextUpkeep]_vars

\* ------------------------------------------------------------ a growing roster
\* The patrol's stores with a third officer, registered under the full name
\* "Unknown", and two more routes: one that passes p1 twice and one with no
\* checkpoint (POST /routes takes any list of ids).
RosterUsers ==
    PatrolUsers \cup
    {[id |-> UserIds[4], username |-> "carol", password_hash |-> get_password_hash("pw1"),
      full_name |-> "Unknown", role |-> "officer", badge_number |-> "B3"]}

RosterRoutes ==
    PatrolRoutes \cup
    {[id |-> RouteIds[3], name |-> "Loop", patrol_point_ids |-> <<"p1", "p2", "p1">>],
     [id |-> RouteIds[4], name |-> "Spare", patrol_point_ids |-> <<>>]}

InitRoster ==
    /\ users = RosterUsers
    /\ patrol_points = PatrolPoints
    /\ routes = RosterRoutes
    /\ route_assignments = PatrolAssignments
    /\ attendance = {}
    /\ n_points = 3
    /\ n_routes = 4
    /\ now = 0
    /\ reqs = [s \in Slots |-> Idle]

RosterCreates ==
    {[officer_id |-> "u4", route_id |-> y, date |-> Dates[1]] : y \in {"r3", "r4"}}

RosterMarks ==
    {[route_assignment_id |-> x, patrol_point_id |-> y, notes |-> None] :
        x \in {"a3", "a4"}, y \in {"p1", "p2"}}

\* The admin assigns carol to the new routes for today, carol reads today's
\* assignment and marks, and the admin reads the attendance listing.
RosterRequests(s) ==
    \/ \E d \in RosterCreates :
         /\ Cardinality(route_assignments) + InFlight("create_route_assignment") < MaxDuty
         /\ Receive(s, "create_route_assignment",
                    Token("u1", ACCESS_TOKEN_EXPIRE_MINUTES, "good"), d)
    \/ Receive(s, "get_today_assignment",
               Token("u4", ACCESS_TOKEN_EXPIRE_MINUTES, "good"), [x |-> None])
    \/ \E d \in RosterMarks :
         /\ Cardinality(attendance) + InFlight("mark_attendance") < MaxRows
         /\ Receive(s, "mark_attendance", Token("u4", ACCESS_TOKEN_EXPIRE_MINUTES, "good"), d)
    \/ Receive(s, "get_all_attendance",
               Token("u1", ACCESS_TOKEN_EXPIRE_MINUTES, "good"), [x |-> None])

HandleRoster(s) ==
    \/ create_route_assignment(s)
    \/ get_today_assignment(s)
    \/ HandleMark(s)
    \/ get_all_attendance(s)

NextRoster ==
    \/ RosterRequests(1)
    \/ HandleRoster(1)
    \/ Close(1)

SpecRoster == InitRoster /\ [][NextRoster]_vars

\* ------------------------------------------------------------ properties
Protected ==
    {"get_me", "create_patrol_point", "get_patrol_points", "delete_patrol_point",
     "create_route", "get_routes", "delete_route", "create_route_assignment",
     "get_route_assignments", "get_today_assignment", "mark_attendance",
     "get_all_attendance", "get_officers"}

AdminOnly ==
    {"create_patrol_point", "delete_patrol_point", "create_route", "delete_route",
     "create_route_assignment", "get_all_attendance", "get_officers"}

OfficerOnly == {"get_today_assignment", "mark_attendance"}

\* Slot s takes a step of its handler.
Steps(s) == reqs[s].pc # "done" /\ reqs'[s].pc # reqs[s].pc

\* Slot s is answered in this step with the given status.
Answered(s, code) == Steps(s) /\ reqs'[s].pc = "done" /\ reqs'[s].code = code

\* The request in slot s comes from a stored user (its token resolves), of a
\* role other than the given one.
CallerNot(s, role) ==
    \E a \in get_current_user(reqs[s].tok) : a.code = 200 /\ a.user["role"] # role

Ids(docs) == {d.id : d \in docs}

\* C5: with register requests served one at a time, a register whose username
\* is already stored is answered 400 in its first step, having written
\* nothing, and db.users is left as it was (no insert, every record as before).
C5_RegisterConflict ==
    [][\A s \in Slots :
         (/\ reqs[s].op = "register"
          /\ reqs[s].pc = "start"
          /\ Steps(s)
          /\ \E u \in users : u.username = reqs[s].arg.username)
         => /\ Answered(s, 400)
            /\ ~reqs'[s].wrote
            /\ users' = users]_vars

\* A register was refused for a stored username, with other fields than the
\* stored record's.
C5_Witness ==
    \E s \in Slots :
        /\ reqs[s].op = "register" /\ reqs[s].pc = "done" /\ reqs[s].code = 400
        /\ \E u \in users :
             /\ u.username = reqs[s].arg.username
             /\ u.role # reqs[s].arg.role
             /\ u.password_hash # get_password_hash(reqs[s].arg.password)

\* C7: an admin-only operation called by a stored user who is not an admin is
\* answered 403 in its one step and leaves every store as it was; and a step
\* that adds or removes a patrol point, a route or an assignment is a step of
\* a request whose resolved caller is an admin.
C7_AdminOnly ==
    [][/\ \A s \in Slots :
            (/\ reqs[s].op \in AdminOnly
             /\ reqs[s].pc = "start"
             /\ Steps(s)
             /\ CallerNot(s, "admin"))
            => /\ Answered(s, 403)
               /\ ~reqs'[s].wrote
               /\ UNCHANGED <<stores, n_points, n_routes>>
       /\ (\/ Ids(patrol_points') # Ids(patrol_points)
           \/ Ids(routes') # Ids(routes)
           \/ Ids(route_assignments') # Ids(route_assignments))
          => \E s \in Slots : Steps(s) /\ reqs'[s].user["role"] = "admin"]_vars

\* An officer's delete of a stored patrol point was refused and the point is
\* still stored.
C7_Witness ==
    \E s \in Slots :
        /\ reqs[s].op = "delete_patrol_point" /\ reqs[s].pc = "done"
        /\ reqs[s].code = 403
        /\ reqs[s].user["role"] = "officer"
        /\ reqs[s].arg.id \in Ids(patrol_points)

\* C8: mark_attendance and get_today_assignment called by a stored user who is
\* not an officer (an admin included) are answered 403 in their first step,
\* having written nothing: no attendance row, no status change.
C8_OfficerOnly ==
    [][\A s \in Slots :
         (/\ reqs[s].op \in OfficerOnly
          /\ reqs[s].pc = "start"
          /\ Steps(s)
          /\ CallerNot(s, "officer"))
         => /\ Answered(s, 403)
            /\ ~reqs'[s].wrote
            /\ UNCHANGED stores]_vars

\* An admin's mark against a stored assignment was refused.
C8_Witness ==
    \E s \in Slots :
        /\ reqs[s].op = "mark_attendance" /\ reqs[s].pc = "done"
        /\ reqs[s].code = 403
        /\ reqs[s].user["role"] = "admin"
        /\ reqs[s].arg.route_assignment_id \in Ids(route_assignments)
        /\ attendance = {}

\* C9: a successful listing of assignments holds, for an officer, exactly the
\* stored assignments whose officer_id is the caller's id and, for an admin,
\* every stored assignment.
C9_AssignmentListing ==
    \A s \in Slots :
        (reqs[s].op = "get_route_assignments" /\ reqs[s].pc = "done" /\ reqs[s].code = 200)
        => /\ reqs[s].user["role"] = "officer"
              => reqs[s].body = {x \in route_assignments : x.officer_id = reqs[s].user["id"]}
           /\ reqs[s].user["role"] = "admin" => reqs[s].body = route_assignments

\* An officer listed assignments and got an assignment, which is the
\* officer's own.
C9_Witness ==
    \E s \in Slots :
        /\ reqs[s].op = "get_route_assignments" /\ reqs[s].pc = "done"
        /\ reqs[s].code = 200
        /\ reqs[s].user["role"] = "officer"
        /\ reqs[s].body # {}
        /\ \A x \in reqs[s].body : x.officer_id = reqs[s].user["id"]

\* The token resolves to no caller: absent, forged, expired, or its subject
\* is not a stored user.
Unresolvable(tok) ==
    \/ tok.sig # "good"
    \/ tok.exp <= now
    \/ tok.sub \notin Ids(users)

\* C10: every operation other than register and login, called with no token,
\* a token with an invalid signature, an expired token or a token whose
\* subject is not a stored user, is answered 401, with no caller resolved (so
\* before any role check) and nothing written.
C10_Unauthenticated ==
    \A s \in Slots :
        (reqs[s].op \in Protected /\ reqs[s].pc = "done" /\ Unresolvable(reqs[s].tok))
        => /\ reqs[s].code = 401
           /\ reqs[s].user["id"] = None
           /\ ~reqs[s].wrote

\* The attendance rows of an (assignment, checkpoint) pair, and of an assignment.
RowsOf(assignment_id, point_id) ==
    {t \in attendance : /\ t.route_assignment_id = assignment_id
                        /\ t.patrol_point_id = point_id}

RowsFor(assignment_id) == {t \in attendance : t.route_assignment_id = assignment_id}

\* Every pair has at most one row; the pair of a mark that inserted, or that
\* was refused as a duplicate, has exactly one.
OneRowPerMarkedPair ==
    /\ \A t \in attendance :
         Cardinality(RowsOf(t.route_assignment_id, t.patrol_point_id)) = 1
    /\ \A s \in Slots :
         (reqs[s].op = "mark_attendance" /\ (reqs[s].wrote \/ reqs[s].code = 400))
         => Cardinality(RowsOf(reqs[s].arg.route_assignment_id,
                               reqs[s].arg.patrol_point_id)) = 1

\* C1: with marks served one at a time, a mark for a pair that has a row is
\* answered 400 at the existence check, having written nothing: no row is
\* added and no assignment changes; and at every point every marked pair has
\* exactly one row.
C1_DuplicateMark ==
    /\ []OneRowPerMarkedPair
    /\ [][\A s \in Slots :
            (/\ reqs[s].op = "mark_attendance"
             /\ reqs[s].pc = "check_existing"
             /\ Steps(s)
             /\ RowsOf(reqs[s].arg.route_assignment_id, reqs[s].arg.patrol_point_id) # {})
            => /\ Answered(s, 400)
               /\ ~reqs'[s].wrote
               /\ attendance' = attendance
               /\ route_assignments' = route_assignments]_vars

\* A second mark of a pair was refused and the pair has its one row.
C1_Witness ==
    \E s \in Slots :
        /\ reqs[s].op = "mark_attendance" /\ reqs[s].pc = "done" /\ reqs[s].code = 400
        /\ Cardinality(RowsOf(reqs[s].arg.route_assignment_id,
                              reqs[s].arg.patrol_point_id)) = 1
        /\ Cardinality(attendance) > 1

\* C2: at most one attendance row per (route_assignment_id, patrol_point_id)
\* pair, in every state that interleaved mark requests reach.
C2_OneRowPerPair ==
    \A t \in attendance :
        Cardinality(RowsOf(t.route_assignment_id, t.patrol_point_id)) <= 1

\* No mark has inserted a row without having settled the status yet.
Settled ==
    \A s \in Slots :
        ~(reqs[s].op = "mark_attendance" /\ reqs[s].pc \in {"find_route", "count", "update"})

Distinct(q) == \A i, j \in 1..Len(q) : q[i] = q[j] => i = j

\* C3: with marks served one at a time, an assignment on a stored route of
\* k >= 2 distinct checkpoints is "assigned" while it has no row,
\* "in_progress" once it has between 1 and k-1 rows and "completed" once it
\* has k, whatever the order of the marks.
C3_StatusFollowsCount ==
    Settled =>
        \A x \in route_assignments : \A r \in routes :
            (/\ r.id = x.route_id
             /\ Len(r.patrol_point_ids) >= 2
             /\ Distinct(r.patrol_point_ids))
            => LET n == Cardinality(RowsFor(x.id))
                   k == Len(r.patrol_point_ids)
               IN  x.status = IF n = 0 THEN "assigned"
                              ELSE IF n < k THEN "in_progress"
                              ELSE "completed"

\* The three checkpoints of route <<p3, p1, p2>> were marked, by an officer who
\* began elsewhere than at its first checkpoint, and the assignment is completed.
C3_Witness ==
    /\ Settled
    /\ \E x \in route_assignments :
         /\ x.route_id = "r2" /\ x.status = "completed"
         /\ {t.patrol_point_id : t \in RowsFor(x.id)} = {"p1", "p2", "p3"}
         /\ Cardinality(RowsFor(x.id)) = 3
         /\ \E r \in routes : r.id = "r2"
    /\ \E x \in route_assignments :
         x.route_id = "r1" /\ x.status = "in_progress" /\ Cardinality(RowsFor(x.id)) = 1

Rank(status) ==
    IF status = "assigned" THEN 0 ELSE IF status = "in_progress" THEN 1 ELSE 2

\* C4: no step takes an assignment's status backwards, from "completed" to
\* "in_progress" or "assigned" or from "in_progress" to "assigned".
C4_StatusAdvances ==
    [][\A x \in route_assignments : \A y \in route_assignments' :
         x.id = y.id => Rank(y.status) >= Rank(x.status)]_vars

\* C6: no two stored users have the same username, in every state that
\* interleaved register requests reach.
C6_UniqueUsernames ==
    \A u, v \in users : u.username = v.username => u = v

\* C11: a successful login of user u at time t (the clock at its step) returns
\* a token that carries u's id and expires at t + 1440; GET /auth/me with the
\* token of a login response resolves to that login's user, and to no other,
\* at every time before the expiry and is answered 401 "Token has expired" at
\* every time after it.
C11_TokenLifetime ==
    [][\A s \in Slots :
         /\ (reqs[s].op = "login" /\ Answered(s, 200))
            => \E u \in users :
                 /\ u.username = reqs[s].arg.username
                 /\ reqs'[s].body =
                        {[access_token |-> Token(u.id, now + 1440, "good"),
                          token_type |-> "bearer",
                          user |-> UserResponse(u)]}
         /\ \A h \in Slots :
              (/\ LoggedIn(h)
               /\ reqs[s].op = "get_me"
               /\ Steps(s)
               /\ reqs[s].tok = LoginResponse(h).access_token)
              => LET expiry == LoginResponse(h).access_token.exp
                     u == LoginResponse(h).user
                 IN  /\ now < expiry
                        => /\ Answered(s, 200)
                           /\ reqs'[s].body = {u}
                           /\ reqs'[s].user["id"] = u.id
                           /\ reqs'[s].user["username"] = reqs[h].arg.username
                     /\ now > expiry
                        => /\ Answered(s, 401)
                           /\ reqs'[s].detail = "Token has expired"
                           /\ reqs'[s].user["id"] = None]_vars

\* Bob logged in after the clock had moved on, and his token was refused as
\* expired a minute after its 1440 minutes.
C11_Witness ==
    \E s, h \in Slots :
        /\ LoggedIn(h)
        /\ reqs[h].arg.username = "bob"
        /\ LoginResponse(h).access_token.exp > 1440
        /\ reqs[s].op = "get_me" /\ reqs[s].pc = "done"
        /\ reqs[s].tok = LoginResponse(h).access_token
        /\ reqs[s].code = 401 /\ reqs[s].detail = "Token has expired"
        /\ now = LoginResponse(h).access_token.exp + 1

\* C12: a login whose username is not stored and a login whose username is
\* stored with another password get the same answer, which depends on nothing
\* but the request: 401 "Invalid username or password" with an empty body (no
\* token); and the step leaves every store as it was.
C12_LoginFailure ==
    [][\A s \in Slots :
         LET known == {u \in users : u.username = reqs[s].arg.username}
             unknown_username == known = {}
             wrong_password ==
                 /\ known # {}
                 /\ \A u \in known : ~verify_password(reqs[s].arg.password, u.password_hash)
         IN  (/\ reqs[s].op = "login"
              /\ Steps(s)
              /\ unknown_username \/ wrong_password)
             => /\ reqs'[s] = Respond(reqs[s], 401, "Invalid username or password", {})
                /\ UNCHANGED stores]_vars

\* A login as alice with the password that was refused while no alice was
\* stored has been refused again with alice stored, and db.users holds no more
\* than alice.
C12_Witness ==
    \E s \in Slots :
        /\ reqs[s].op = "login" /\ reqs[s].pc = "done"
        /\ reqs[s].code = 401 /\ reqs[s].detail = "Invalid username or password"
        /\ reqs[s].body = {}
        /\ reqs[s].arg.username = "alice"
        /\ \E u \in users :
             /\ users = {u}
             /\ u.username = "alice"
             /\ ~verify_password(reqs[s].arg.password, u.password_hash)

TodayFound(s) ==
    /\ reqs[s].op = "get_today_assignment" /\ reqs[s].pc = "done" /\ reqs[s].code = 200
    /\ \A b \in reqs[s].body : "patrol_points" \in DOMAIN b

\* C14: when get_today_assignment returns an assignment, its patrol_points
\* list is the stored route's patrol_point_ids, in the route's order, less the
\* ids of no stored patrol point; each entry carries the stored point's name
\* and address, and completed is true exactly when an attendance row exists
\* for the assignment and that point id.
C14_TodayCheckpoints ==
    \A s \in Slots :
        TodayFound(s) =>
            \A b \in reqs[s].body :
                /\ b.assignment \in route_assignments
                /\ b.assignment.officer_id = reqs[s].user["id"]
                /\ \E r \in routes : r.id = b.assignment.route_id
                /\ LET route == CHOOSE r \in routes : r.id = b.assignment.route_id
                       expected == SelectSeq(route.patrol_point_ids,
                                             LAMBDA i : i \in Ids(patrol_points))
                       got == b.patrol_points
                   IN  /\ Len(got) = Len(expected)
                       /\ \A i \in 1..Len(got) :
                            /\ got[i].id = expected[i]
                            /\ \E p \in patrol_points :
                                 /\ p.id = got[i].id
                                 /\ p.name = got[i].name
                                 /\ p.address = got[i].address
                            /\ got[i].completed
                                 <=> RowsOf(b.assignment.id, got[i].id) # {}

\* Bob's route is <<p3, p1, p2>>; p1 has been deleted, p3 is marked on his
\* assignment and p1 on the other one: he is shown p3 (completed) then p2 (not).
C14_Witness ==
    \E s \in Slots :
        /\ TodayFound(s)
        /\ "p1" \notin Ids(patrol_points)
        /\ RowsOf("a1", "p1") # {}
        /\ \E b \in reqs[s].body :
             /\ b.route.patrol_point_ids = <<"p3", "p1", "p2">>
             /\ Len(b.patrol_points) = 2
             /\ b.patrol_points[1].id = "p3" /\ b.patrol_points[1].completed
             /\ b.patrol_points[2].id = "p2" /\ ~b.patrol_points[2].completed

\* C15: get_today_assignment called by a stored officer is answered in one
\* step that leaves every store as it was, whatever the answer; with no
\* assignment of the officer dated today the answer is 200 with the message
\* "No route assigned for today", and with an assignment dated today whose
\* route_id is the id of no stored route it is 404 "Route not found".
C15_TodayOutcomes ==
    [][\A s \in Slots :
         (/\ reqs[s].op = "get_today_assignment"
          /\ Steps(s)
          /\ \E a \in get_current_user(reqs[s].tok) :
               a.code = 200 /\ a.user["role"] = "officer")
         => LET mine == {x \in route_assignments :
                           /\ x.officer_id = reqs'[s].user["id"]
                           /\ x.date = Dates[(now \div 1440) + 1]}
            IN  /\ reqs'[s].pc = "done"
                /\ ~reqs'[s].wrote
                /\ UNCHANGED <<stores, n_points, n_routes>>
                /\ mine = {}
                   => /\ reqs'[s].code = 200
                      /\ reqs'[s].body = {[message |-> "No route assigned for today"]}
                /\ (mine # {} /\ \A x \in mine : x.route_id \notin Ids(routes))
                   => /\ reqs'[s].code = 404
                      /\ reqs'[s].detail = "Route not found"
                      /\ reqs'[s].body = {}
                /\ (mine # {} /\ \A x \in mine : x.route_id \in Ids(routes))
                   => reqs'[s].code = 200 /\ TodayFound(s)']_vars

\* An officer with an assignment dated today on a route that is not stored
\* was answered 404, and the assignment is still "assigned".
C15_Witness ==
    \E s \in Slots :
        /\ reqs[s].op = "get_today_assignment" /\ reqs[s].pc = "done"
        /\ reqs[s].code = 404 /\ reqs[s].detail = "Route not found"
        /\ reqs[s].user["role"] = "officer"
        /\ \E x \in route_assignments :
             /\ x.officer_id = reqs[s].user["id"]
             /\ x.date = Dates[1]
             /\ x.route_id \notin Ids(routes)
             /\ x.status = "assigned"

\* The statuses of a failed request.
Failure == {400, 401, 403, 404}

\* C16: a request answered 400, 401, 403 or 404 has written to no store, in
\* the step that answers it or in an earlier one (every step that changes a
\* store marks its request as having written, and the mark stays); and a
\* mark_attendance whose route_assignment_id is the id of no stored assignment
\* is answered 404 at the lookup, with no attendance row added.
C16_FailuresWriteNothing ==
    [][/\ \A s \in Slots :
            /\ (Steps(s) /\ reqs'[s].pc = "done" /\ reqs'[s].code \in Failure)
               => /\ ~reqs[s].wrote
                  /\ ~reqs'[s].wrote
                  /\ UNCHANGED <<stores, n_points, n_routes>>
            /\ (Steps(s) /\ reqs[s].wrote) => reqs'[s].wrote
            /\ (/\ reqs[s].op = "mark_attendance"
                /\ reqs[s].pc = "find_assignment"
                /\ Steps(s)
                /\ reqs[s].arg.route_assignment_id \notin Ids(route_assignments))
               => /\ Answered(s, 404)
                  /\ reqs'[s].detail = "Route assignment not found"
                  /\ attendance' = attendance
       /\ stores' # stores => \E s \in Slots : Steps(s) /\ reqs'[s].wrote]_vars

\* An officer's mark against an id that no assignment has was answered 404,
\* with an assignment stored and no attendance row written.
C16_Witness ==
    \E s \in Slots :
        /\ reqs[s].op = "mark_attendance" /\ reqs[s].pc = "done"
        /\ reqs[s].code = 404 /\ reqs[s].detail = "Route assignment not found"
        /\ reqs[s].user["role"] = "officer"
        /\ reqs[s].arg.route_assignment_id \notin Ids(route_assignments)
        /\ route_assignments # {}
        /\ attendance = {}
        /\ ~reqs[s].wrote

\* The stored assignments a mark names that belong to another user than u.
OthersAssignment(s, u) ==
    {x \in route_assignments :
        x.id = reqs[s].arg.route_assignment_id /\ x.officer_id # u["id"]}

\* C17: a mark by an officer against a stored assignment of another officer
\* goes the way of any mark: it passes the role check and the assignment
\* lookup, passes the existence check when the pair has no row, inserts one
\* row whose officer_id is the caller's id (not the assignment's), is never
\* refused afterwards, and, the assignment's route being stored, sets the
\* assignment's status to "in_progress" or "completed" before it answers 200.
C17_NoOwnershipCheck ==
    [][\A s \in Slots :
         /\ (/\ At(s, "mark_attendance", "start")
             /\ Steps(s)
             /\ \E a \in get_current_user(reqs[s].tok) :
                  /\ a.code = 200
                  /\ a.user["role"] = "officer"
                  /\ OthersAssignment(s, a.user) # {})
            => reqs'[s].pc = "find_assignment"
         /\ (/\ reqs[s].op = "mark_attendance"
             /\ Steps(s)
             /\ OthersAssignment(s, reqs[s].user) # {})
            => /\ reqs[s].pc = "find_assignment" => reqs'[s].pc = "check_existing"
               /\ (/\ reqs[s].pc = "check_existing"
                   /\ RowsOf(reqs[s].arg.route_assignment_id,
                             reqs[s].arg.patrol_point_id) = {})
                  => reqs'[s].pc = "insert"
               /\ reqs[s].pc = "insert"
                  => \E t \in attendance' :
                       /\ attendance' \ attendance = {t}
                       /\ attendance \subseteq attendance'
                       /\ t.officer_id = reqs[s].user["id"]
                       /\ t.route_assignment_id = reqs[s].arg.route_assignment_id
                       /\ t.patrol_point_id = reqs[s].arg.patrol_point_id
                       /\ \A x \in OthersAssignment(s, reqs[s].user) :
                            t.officer_id # x.officer_id
                       /\ reqs'[s].body = {t}
               /\ reqs[s].pc = "update"
                  => \A y \in route_assignments' :
                       y.id = reqs[s].arg.route_assignment_id
                       => y.status \in {"in_progress", "completed"}
               /\ (reqs[s].pc \in {"insert", "find_route", "count", "update"}
                   /\ reqs'[s].pc = "done")
                  => reqs'[s].code = 200 /\ reqs'[s].body = reqs[s].body]_vars

\* Bob has marked p1 on alice's assignment and was answered 200: the row is
\* bob's, alice's assignment is in progress and bob's own is untouched.
C17_Witness ==
    \E s \in Slots :
        /\ reqs[s].op = "mark_attendance" /\ reqs[s].pc = "done" /\ reqs[s].code = 200
        /\ reqs[s].user["id"] = "u3"
        /\ reqs[s].arg.route_assignment_id = "a1"
        /\ \E t \in attendance :
             /\ attendance = {t}
             /\ reqs[s].body = {t}
             /\ t.officer_id = "u3" /\ t.route_assignment_id = "a1"
        /\ \E x \in route_assignments :
             x.id = "a1" /\ x.officer_id = "u2" /\ x.status = "in_progress"
        /\ \E x \in route_assignments :
             x.id = "a2" /\ x.officer_id = "u3" /\ x.status = "assigned"

\* Documents d and e are one stored record, before and after a step.
SameRecord(d, e) == d.id = e.id

\* C18: in every step, every stored user and attendance row is kept as it
\* is; a patrol point or route that is still stored is as it was; and every
\* stored assignment is kept with its id, officer_id, route_id and date: of
\* all the fields of all the records, only an assignment's status may differ
\* after the step.
C18_OnlyStatusChanges ==
    [][/\ users \subseteq users'
       /\ attendance \subseteq attendance'
       /\ \A p \in patrol_points : \A q \in patrol_points' : SameRecord(p, q) => q = p
       /\ \A r \in routes : \A q \in routes' : SameRecord(r, q) => q = r
       /\ \A x \in route_assignments :
            /\ \E y \in route_assignments' : SameRecord(x, y)
            /\ \A y \in route_assignments' :
                 SameRecord(x, y) => [y EXCEPT !.status = x.status] = x]_vars

\* A mark has moved an assignment to "in_progress": the assignment is
\* otherwise as it was created, and the user who marked, the route and the
\* patrol point marked are stored.
C18_Witness ==
    \E s \in Slots :
        /\ reqs[s].op = "mark_attendance" /\ reqs[s].pc = "done" /\ reqs[s].code = 200
        /\ reqs[s].user \in users
        /\ reqs[s].arg.patrol_point_id \in Ids(patrol_points)
        /\ reqs[s].body \subseteq attendance
        /\ \E x \in route_assignments :
             /\ x.id = reqs[s].arg.route_assignment_id
             /\ x.status = "in_progress"
             /\ x.route_id \in Ids(routes)
             /\ [officer_id |-> x.officer_id, route_id |-> x.route_id, date |-> x.date]
                    \in AssignmentCreates

\* C19: every stored user has role "admin" or "officer".
C19_RolesValid ==
    \A u \in users : u.role \in {"admin", "officer"}

\* The answered get_all_attendance in slot s returned a listing.
Listed(s) ==
    reqs[s].op = "get_all_attendance" /\ reqs[s].pc = "done" /\ reqs[s].code = 200

\* The listing in slot s has one record per stored attendance row.
OneViewPerRow(s) ==
    /\ Cardinality(reqs[s].body) = Cardinality(attendance)
    /\ \A t \in attendance : Cardinality({v \in reqs[s].body : v.id = t.id}) = 1

\* The record of the listing in slot s for row t.
ViewOf(s, t) == CHOOSE v \in reqs[s].body : v.id = t.id

\* C20, as stated: a listing returned to an admin has one record per stored
\* row, whose patrol point name and address are "Unknown" exactly when the
\* row's patrol_point_id is the id of no stored patrol point, whose officer
\* name is "Unknown" exactly when officer_id is the id of no stored user and
\* whose date is null exactly when route_assignment_id is the id of no stored
\* assignment.
C20_UnknownExactly ==
    \A s \in Slots :
        Listed(s) =>
            /\ reqs[s].user["role"] = "admin"
            /\ OneViewPerRow(s)
            /\ \A t \in attendance :
                 LET v == ViewOf(s, t)
                 IN  /\ (v.patrol_point_name = "Unknown" /\ v.patrol_point_address = "Unknown")
                        <=> t.patrol_point_id \notin Ids(patrol_points)
                     /\ v.officer_name = "Unknown" <=> t.officer_id \notin Ids(users)
                     /\ v.date = None <=> t.route_assignment_id \notin Ids(route_assignments)

\* C20, amended: a listing returned to an admin has one record per stored
\* row; its patrol point name and address are the stored patrol point's when
\* the row's patrol_point_id resolves and "Unknown" when it does not; its
\* officer name and badge number are the stored user's when officer_id
\* resolves and "Unknown" and null when it does not; its date is the stored
\* assignment's when route_assignment_id resolves and null when it does not.
C20_AttendanceListing ==
    \A s \in Slots :
        Listed(s) =>
            /\ reqs[s].user["role"] = "admin"
            /\ OneViewPerRow(s)
            /\ \A t \in attendance :
                 LET v == ViewOf(s, t)
                 IN  /\ v.notes = t.notes
                     /\ \A p \in patrol_points :
                          p.id = t.patrol_point_id
                          => v.patrol_point_name = p.name /\ v.patrol_point_address = p.address
                     /\ t.patrol_point_id \notin Ids(patrol_points)
                        => /\ v.patrol_point_name = "Unknown"
                           /\ v.patrol_point_address = "Unknown"
                     /\ \A u \in users :
                          u.id = t.officer_id
                          => v.officer_name = u.full_name /\ v.badge_number = u.badge_number
                     /\ t.officer_id \notin Ids(users)
                        => v.officer_name = "Unknown" /\ v.badge_number = None
                     /\ \A x \in route_assignments :
                          x.id = t.route_assignment_id => v.date = x.date
                     /\ t.route_assignment_id \notin Ids(route_assignments)
                        => v.date = None

\* The admin's listing shows two rows with patrol point "Unknown": the row
\* for p1, which has been deleted, and the row for p4, which is stored under
\* that name.
C20_Witness ==
    \E s \in Slots :
        /\ Listed(s)
        /\ "p1" \notin Ids(patrol_points)
        /\ "p4" \in Ids(patrol_points)
        /\ \E t1, t2 \in attendance :
             /\ t1.patrol_point_id = "p1"
             /\ t2.patrol_point_id = "p4"
             /\ ViewOf(s, t1).patrol_point_name = "Unknown"
             /\ ViewOf(s, t2).patrol_point_name = "Unknown"
             /\ ViewOf(s, t1).officer_name = "Alice"
             /\ ViewOf(s, t1).date = Dates[1]

\* The request in slot s comes from a stored admin.
CallerAdmin(s) ==
    \E a \in get_current_user(reqs[s].tok) : a.code = 200 /\ a.user["role"] = "admin"

\* C21: delete_patrol_point and delete_route called by a stored admin with an
\* id that no stored patrol point, respectively route, has are answered 404
\* and leave every store as it was; so is the second delete of an id whose
\* first delete succeeded.
C21_DeleteNotFound ==
    [][\A s \in Slots :
         /\ (/\ reqs[s].op = "delete_patrol_point"
             /\ Steps(s)
             /\ CallerAdmin(s)
             /\ reqs[s].arg.id \notin Ids(patrol_points))
            => /\ Answered(s, 404)
               /\ reqs'[s].detail = "Patrol point not found"
               /\ ~reqs'[s].wrote
               /\ UNCHANGED <<stores, n_points, n_routes>>
         /\ (/\ reqs[s].op = "delete_route"
             /\ Steps(s)
             /\ CallerAdmin(s)
             /\ reqs[s].arg.id \notin Ids(routes))
            => /\ Answered(s, 404)
               /\ reqs'[s].detail = "Route not found"
               /\ ~reqs'[s].wrote
               /\ UNCHANGED <<stores, n_points, n_routes>>]_vars

\* Patrol point p1, stored at first, has been deleted, and the admin's next
\* delete of p1 was answered 404 with the other three points still stored.
C21_Witness ==
    \E s \in Slots :
        /\ reqs[s].op = "delete_patrol_point" /\ reqs[s].pc = "done"
        /\ reqs[s].code = 404 /\ reqs[s].detail = "Patrol point not found"
        /\ reqs[s].user["role"] = "admin"
        /\ reqs[s].arg.id = "p1"
        /\ n_points = 4
        /\ Ids(patrol_points) = {"p2", "p3", "p4"}

\* C22: whenever get_today_assignment is called by a stored user, at most one
\* stored assignment has the caller's id as officer_id and today's date.
C22_UniqueToday ==
    \A s \in Slots :
        reqs[s].op = "get_today_assignment" =>
            \A a \in get_current_user(reqs[s].tok) :
                a.code = 200 =>
                    Cardinality({x \in route_assignments :
                                   /\ x.officer_id = a.user["id"]
                                   /\ x.date = Dates[(now \div 1440) + 1]}) <= 1

\* C23: an assignment just created has status "assigned", and the assignment
\* named by a mark that was answered 200 has status "in_progress" or
\* "completed".
C23_MarkedNotAssigned ==
    \A s \in Slots :
        /\ (/\ reqs[s].op = "create_route_assignment"
            /\ reqs[s].pc = "done"
            /\ reqs[s].code = 200)
           => \A x \in reqs[s].body : x.status = "assigned" /\ x \in route_assignments
        /\ (/\ reqs[s].op = "mark_attendance"
            /\ reqs[s].pc = "done"
            /\ reqs[s].code = 200)
           => \A x \in route_assignments :
                x.id = reqs[s].arg.route_assignment_id
                => x.status \in {"in_progress", "completed"}

\* Every stored attendance row names a stored assignment and a stored user
\* whose role is "officer".
RowsResolve ==
    \A t \in attendance :
        /\ t.route_assignment_id \in Ids(route_assignments)
        /\ \E u \in users : u.id = t.officer_id /\ u.role = "officer"

\* C24, as stated: every stored attendance row names a stored assignment and
\* a stored officer, and no record of a listing returned to the admin has
\* officer name "Unknown" or a null date.
C24_NeverUnknown ==
    /\ RowsResolve
    /\ \A s \in Slots :
         Listed(s) =>
            \A v \in reqs[s].body : v.officer_name # "Unknown" /\ v.date # None

\* C24, amended: every stored attendance row names a stored assignment and a
\* stored officer, and every record of a listing returned to the admin shows
\* the full name and badge number of the row's stored officer and the date of
\* the row's stored assignment, never a substitute.
C24_RowsResolve ==
    /\ RowsResolve
    /\ \A s \in Slots :
         Listed(s) =>
            /\ OneViewPerRow(s)
            /\ \A t \in attendance :
                 /\ \E u \in users :
                      /\ u.id = t.officer_id
                      /\ ViewOf(s, t).officer_name = u.full_name
                      /\ ViewOf(s, t).badge_number = u.badge_number
                 /\ \E x \in route_assignments :
                      /\ x.id = t.route_assignment_id
                      /\ ViewOf(s, t).date = x.date
                      /\ ViewOf(s, t).date \in SeqRange(Dates)

\* Carol, the officer registered under the full name "Unknown", has marked p1
\* on her assignment; the admin's listing shows the row under that name, with
\* her badge number and the assignment's date.
C24_Witness ==
    \E s \in Slots :
        /\ Listed(s)
        /\ \E t \in attendance :
             /\ t.officer_id = "u4"
             /\ t.route_assignment_id \in Ids(route_assignments)
             /\ ViewOf(s, t).officer_name = "Unknown"
             /\ ViewOf(s, t).badge_number = "B3"
             /\ ViewOf(s, t).date = Dates[1]

\* C25: an assignment with status "completed" on a stored route has an
\* attendance row for every checkpoint id of the route's sequence, and every
\* attendance row of an assignment on a stored route is for a stored patrol
\* point of that route.
C25_CompletedMeansAllVisited ==
    \A x \in route_assignments : \A r \in routes :
        r.id = x.route_id =>
            /\ x.status = "completed"
               => \A i \in 1..Len(r.patrol_point_ids) :
                    RowsOf(x.id, r.patrol_point_ids[i]) # {}
            /\ \A t \in RowsFor(x.id) :
                 /\ t.patrol_point_id \in Ids(patrol_points)
                 /\ t.patrol_point_id \in SeqRange(r.patrol_point_ids)

\* C26: with marks served one at a time and none under way, an assignment on
\* a stored route, be its sequence repeating or empty, that has attendance,
\* with a row for every distinct checkpoint id of the route, is "completed".
C26_AllMarkedCompletes ==
    Settled =>
        \A x \in route_assignments : \A r \in routes :
            (/\ r.id = x.route_id
             /\ RowsFor(x.id) # {}
             /\ \A p \in SeqRange(r.patrol_point_ids) : RowsOf(x.id, p) # {})
            => x.status = "completed"

=============================================================================
